---- MODULE Spec2Model ----
(***************************************************************************)
(* colprint: a field registry, the compiler of column specifications into  *)
(* Programs, and the Program's rendering entry points.                     *)
(*                                                                         *)
(* A Go string or []byte is a sequence of one-character strings, so that   *)
(* splitting, trimming, parsing, truncating and padding are computed byte  *)
(* by byte as the code computes them.  A Go map is a function with a       *)
(* finite domain.                                                          *)
(***************************************************************************)
EXTENDS Integers, Sequences, FiniteSets, TLC

VARIABLES
    reg,     \* the Registry handed to Compile
    call,    \* the arguments of the Compile call made, if any
    result,  \* what that Compile call returned (a Program or an error)
    line,    \* the caller's line buffer
    tmp,     \* the caller's tmp buffer
    sink,    \* the payloads the io.Writer has received, in order
    ret,     \* what the last render call returned
    callers, \* concurrent callers of one Program: where each is in its call
    bufs     \* the line and tmp buffers the concurrent callers pass

vars == <<reg, call, result, line, tmp, sink, ret, callers, bufs>>

----------------------------------------------------------------------------
(* Bytes and strings                                                       *)

SP == " "

Digits == <<"0", "1", "2", "3", "4", "5", "6", "7", "8", "9">>

IsDigit(c) == \E d \in 1..10 : Digits[d] = c

DigitVal(c) == (CHOOSE d \in 1..10 : Digits[d] = c) - 1

Spaces(n) == [i \in 1..n |-> SP]

\* strings.ToLower on the letters of the model's alphabet
LowerChar(c) ==
    CASE c = "A" -> "a"
      [] c = "B" -> "b"
      [] c = "C" -> "c"
      [] c = "D" -> "d"
      [] c = "Z" -> "z"
      [] OTHER -> c

ToLower(s) == [i \in 1..Len(s) |-> LowerChar(s[i])]

\* strings.TrimSpace: SP is the only white space of the model's alphabet
RECURSIVE TrimLeft(_)
TrimLeft(s) == IF s # <<>> /\ Head(s) = SP THEN TrimLeft(Tail(s)) ELSE s

RECURSIVE TrimRight(_)
TrimRight(s) ==
    IF s # <<>> /\ s[Len(s)] = SP THEN TrimRight(SubSeq(s, 1, Len(s) - 1)) ELSE s

TrimSpace(s) == TrimRight(TrimLeft(s))

\* strings.IndexByte, 1-based: 0 when c does not occur (Go: -1)
IndexByte(s, c) ==
    IF \E i \in 1..Len(s) : s[i] = c
    THEN CHOOSE i \in 1..Len(s) : s[i] = c /\ \A j \in 1..(i - 1) : s[j] # c
    ELSE 0

\* strings.Split(s, sep) for a one-byte separator
RECURSIVE Split(_, _)
Split(s, sep) ==
    LET i == IndexByte(s, sep)
    IN IF i = 0 THEN <<s>>
       ELSE <<SubSeq(s, 1, i - 1)>> \o Split(SubSeq(s, i + 1, Len(s)), sep)

HasPrefix(s, c) == s # <<>> /\ Head(s) = c

\* The tokens of a spec joined by commas: what Split(s, ",") takes apart
RECURSIVE Join(_)
Join(tokens) ==
    IF tokens = <<>> THEN <<>>
    ELSE IF Len(tokens) = 1 THEN Head(tokens)
    ELSE Head(tokens) \o <<",">> \o Join(Tail(tokens))

RECURSIVE DigitsValue(_, _)
DigitsValue(s, acc) ==
    IF s = <<>> THEN acc ELSE DigitsValue(Tail(s), acc * 10 + DigitVal(Head(s)))

\* strconv.Atoi: an optional sign, then one or more decimal digits
Atoi(s) ==
    LET signed == s # <<>> /\ Head(s) \in {"+", "-"}
        body == IF signed THEN Tail(s) ELSE s
    IN IF body = <<>> \/ \E i \in 1..Len(body) : ~IsDigit(body[i])
       THEN [ok |-> FALSE, val |-> 0]
       ELSE [ok |-> TRUE,
             val |-> IF signed /\ Head(s) = "-"
                     THEN 0 - DigitsValue(body, 0)
                     ELSE DigitsValue(body, 0)]

RECURSIVE NatDigits(_)
NatDigits(n) ==
    IF n < 10 THEN <<Digits[n + 1]>> ELSE NatDigits(n \div 10) \o <<Digits[(n % 10) + 1]>>

\* strconv.AppendInt(dst, n, 10)
AppendInt(dst, n) ==
    dst \o (IF n < 0 THEN <<"-">> \o NatDigits(0 - n) ELSE NatDigits(n))

RECURSIVE Pow10(_)
Pow10(p) == IF p = 0 THEN 1 ELSE 10 * Pow10(p - 1)

RECURSIVE FracDigits(_, _)
FracDigits(n, p) ==
    IF p = 0 THEN <<>> ELSE FracDigits(n \div 10, p - 1) \o <<Digits[(n % 10) + 1]>>

\* strconv.AppendFloat(dst, v, 'f', prec, 64) for v = e/8, a float64 that is
\* exact: the decimal expansion is rounded to prec digits, half to even
AppendFloat(dst, e, prec) ==
    LET m == IF e < 0 THEN 0 - e ELSE e
        scaled == m * Pow10(prec)
        q == scaled \div 8
        r == scaled % 8
        n == IF r > 4 \/ (r = 4 /\ q % 2 = 1) THEN q + 1 ELSE q
    IN dst \o (IF e < 0 THEN <<"-">> ELSE <<>>)
           \o NatDigits(n \div Pow10(prec))
           \o (IF prec > 0 THEN <<".">> \o FracDigits(n % Pow10(prec), prec) ELSE <<>>)

----------------------------------------------------------------------------
(* Fields and the registry                                                 *)

KindString == 1
KindInt == 2
KindFloat == 3
KindCustom == 4

\* Field[T]; Description only feeds PrintHelp and is left out.  Get names
\* the extractor bound by String/Int/Float/Custom: the attribute of the
\* record that it reads.
ZeroField ==
    [Name |-> <<>>, Display |-> <<>>, Width |-> 0, Kind |-> 0, Precision |-> 0,
     Get |-> "nil"]

DefaultWidth == 10

\* Registry.Field: the builder's initial field
Field(name, display) ==
    [ZeroField EXCEPT !.Name = name, !.Display = display, !.Width = DefaultWidth]

Width(b, w) == [b EXCEPT !.Width = w]

String(b, fn) == [b EXCEPT !.Kind = KindString, !.Get = fn]

IntGetter(b, fn) == [b EXCEPT !.Kind = KindInt, !.Get = fn]

Float(b, precision, fn) ==
    [b EXCEPT !.Kind = KindFloat, !.Precision = precision, !.Get = fn]

Custom(b, fn) == [b EXCEPT !.Kind = KindCustom, !.Get = fn]

\* m[k] = v on a Go map
Put(m, k, v) == [x \in (DOMAIN m) \cup {k} |-> IF x = k THEN v ELSE m[x]]

NewRegistry ==
    [fields |-> <<>>, fieldOrder |-> <<>>, index |-> <<>>, collections |-> <<>>,
     defaults |-> <<>>, subRegistries |-> <<>>]

\* FieldBuilder.Register
Register(r, f) ==
    [r EXCEPT !.fields = Put(r.fields, f.Name, f),
              !.index = Put(r.index, ToLower(f.Name), f.Name),
              !.fieldOrder = Append(r.fieldOrder, f.Name)]

DefineCollection(r, name, defaultSpec, members) ==
    [r EXCEPT !.collections = Put(r.collections, name, members),
              !.defaults = Put(r.defaults, name, defaultSpec)]

\* A faulty variant of SetDefaults that keeps a default spec the collection
\* already has
SetDefaultsOnce(r, collectionName, spec) ==
    IF collectionName \in DOMAIN r.defaults THEN r
    ELSE [r EXCEPT !.defaults = Put(r.defaults, collectionName, spec)]

SetDefaults(r, collectionName, spec) ==
    [r EXCEPT !.defaults = Put(r.defaults, collectionName, spec)]

AddRegistry(r, sub) == [r EXCEPT !.subRegistries = Append(r.subRegistries, sub)]

\* The bytes of names, in increasing byte value
ByteOrder ==
    <<SP, "0", "1", "2", "3", "4", "5", "6", "7", "8", "9", "A", "B", "C", "D", "Z",
      "a", "b", "c", "d", "e", "f", "l", "t", "u">>

ByteValue(c) == CHOOSE k \in 1..Len(ByteOrder) : ByteOrder[k] = c

\* s < t on Go strings: byte-wise lexicographic
RECURSIVE StringLess(_, _)
StringLess(s, t) ==
    IF t = <<>> THEN FALSE
    ELSE IF s = <<>> THEN TRUE
    ELSE IF Head(s) # Head(t) THEN ByteValue(Head(s)) < ByteValue(Head(t))
    ELSE StringLess(Tail(s), Tail(t))

\* sort.Strings: the slice's elements, duplicates kept, in increasing order
RECURSIVE SortStrings(_)
SortStrings(names) ==
    IF names = <<>> THEN <<>>
    ELSE LET k == CHOOSE i \in 1..Len(names) :
                      \A j \in 1..Len(names) : ~StringLess(names[j], names[i])
         IN <<names[k]>>
              \o SortStrings(SubSeq(names, 1, k - 1) \o SubSeq(names, k + 1, Len(names)))

\* Registry.ListFields: a copy of fieldOrder, sorted on request
ListFields(r, sorted) == IF sorted THEN SortStrings(r.fieldOrder) ELSE r.fieldOrder

\* The keys of a map appended to a slice in the order the range yields them:
\* sorting makes that order immaterial
RECURSIVE KeysOf(_)
KeysOf(keys) ==
    IF keys = {} THEN <<>>
    ELSE LET k == CHOOSE x \in keys : TRUE IN <<k>> \o KeysOf(keys \ {k})

\* Registry.ListCollections
ListCollections(r) == SortStrings(KeysOf(DOMAIN r.collections))

\* Registry.get: exact match, then the lowercase index, then the
\* sub-registries in the order they were added
RECURSIVE get(_, _)
RECURSIVE getSub(_, _)
\* A faulty variant of get that searches the sub-registries before the
\* registry's own fields
getSubsFirst(r, name) ==
    LET g == getSub(r.subRegistries, name)
    IN IF g.ok THEN g
       ELSE IF name \in DOMAIN r.fields THEN [ok |-> TRUE, f |-> r.fields[name]]
       ELSE IF ToLower(name) \in DOMAIN r.index
            THEN [ok |-> TRUE, f |-> r.fields[r.index[ToLower(name)]]]
            ELSE [ok |-> FALSE, f |-> ZeroField]

get(r, name) ==
    IF name \in DOMAIN r.fields THEN [ok |-> TRUE, f |-> r.fields[name]]
    ELSE IF ToLower(name) \in DOMAIN r.index
         THEN [ok |-> TRUE, f |-> r.fields[r.index[ToLower(name)]]]
         ELSE getSub(r.subRegistries, name)

getSub(subs, name) ==
    IF subs = <<>> THEN [ok |-> FALSE, f |-> ZeroField]
    ELSE LET g == get(Head(subs), name)
         IN IF g.ok THEN g ELSE getSub(Tail(subs), name)

----------------------------------------------------------------------------
(* The spec compiler                                                       *)

NoErr == [kind |-> "none", arg |-> <<>>, via |-> <<>>]

\* An error value: which fmt.Errorf made it, the token or name it quotes,
\* and the "expanding @x: " prefixes wrapped around it, outermost first
Err(kind, arg) == [kind |-> kind, arg |-> arg, via |-> <<>>]

\* The goroutine's stack is exhausted: a fatal error, not an error value
StackOverflow == Err("StackOverflow", <<>>)

Parsed(fields) == [err |-> NoErr, fields |-> fields]

Failed(e) == [err |-> e, fields |-> <<>>]

\* fmt.Errorf("expanding @%s: %w", name, err) around what a nested call returned
Expanding(o, name) ==
    IF o.err.kind \in {"none", "StackOverflow"} THEN o
    ELSE Failed([o.err EXCEPT !.via = <<name>> \o o.err.via])

DefaultName == <<"d", "e", "f", "a", "u", "l", "t">>

\* parseFieldSpec: name or name:width
parseFieldSpec(tok) ==
    LET idx == IndexByte(tok, ":")
        widthStr == TrimSpace(SubSeq(tok, idx + 1, Len(tok)))
        n == Atoi(widthStr)
    IN IF idx = 0
       THEN [name |-> TrimSpace(tok), width |-> 0, hasWidth |-> FALSE, err |-> NoErr]
       ELSE IF widthStr = <<>>
       THEN [name |-> <<>>, width |-> 0, hasWidth |-> FALSE,
             err |-> Err("EmptyWidth", tok)]
       ELSE IF ~n.ok
       THEN [name |-> <<>>, width |-> 0, hasWidth |-> FALSE,
             err |-> Err("UnparsableWidth", tok)]
       ELSE [name |-> TrimSpace(SubSeq(tok, 1, idx - 1)), width |-> n.val,
             hasWidth |-> TRUE, err |-> NoErr]

\* A faulty variant of parseFieldToken that keeps the registered width
parseFieldTokenRegistered(r, tok) ==
    LET p == parseFieldSpec(tok)
        g == get(r, p.name)
    IN IF p.err.kind # "none" THEN Failed(p.err)
       ELSE IF ~g.ok THEN Failed(Err("UnknownField", p.name))
       ELSE IF p.hasWidth /\ p.width <= 0 THEN Failed(Err("NonPositiveWidth", p.name))
       ELSE Parsed(<<g.f>>)

\* A faulty variant of parseFieldToken that skips a field it does not find
parseFieldTokenLenient(r, tok) ==
    LET p == parseFieldSpec(tok)
        g == get(r, p.name)
    IN IF p.err.kind # "none" THEN Failed(p.err)
       ELSE IF ~g.ok THEN Parsed(<<>>)
       ELSE IF p.hasWidth /\ p.width <= 0 THEN Failed(Err("NonPositiveWidth", p.name))
       ELSE Parsed(<<IF p.hasWidth THEN [g.f EXCEPT !.Width = p.width] ELSE g.f>>)

\* The part of parseSpec's loop body that handles a field token
parseFieldToken(r, tok) ==
    LET p == parseFieldSpec(tok)
        g == get(r, p.name)
    IN IF p.err.kind # "none" THEN Failed(p.err)
       ELSE IF ~g.ok THEN Failed(Err("UnknownField", p.name))
       ELSE IF p.hasWidth /\ p.width <= 0 THEN Failed(Err("NonPositiveWidth", p.name))
       ELSE Parsed(<<IF p.hasWidth THEN [g.f EXCEPT !.Width = p.width] ELSE g.f>>)

\* parseSpec, as the set of results the call can produce: ranging over the
\* defaults map visits its keys in an order Go leaves unspecified, so the
\* first key seen is any key.  depth is the number of nested parseSpec
\* frames the stack still has room for.
RECURSIVE parseSpec(_, _, _)
RECURSIVE parseTokens(_, _, _)
\* A faulty variant of expandDefault that reports an unknown collection
\* when no default spec is registered
expandDefaultStrict(r, depth) ==
    IF DOMAIN r.defaults = {} THEN {Failed(Err("UnknownCollection", DefaultName))}
    ELSE UNION {{Expanding(o, DefaultName) : o \in parseSpec(r, r.defaults[k], depth - 1)} :
                k \in DOMAIN r.defaults}

\* "Handle @default": the first key the range over reg.defaults yields
expandDefault(r, depth) ==
    IF DOMAIN r.defaults = {} THEN {Parsed(<<>>)}
    ELSE UNION {{Expanding(o, DefaultName) : o \in parseSpec(r, r.defaults[k], depth - 1)} :
                k \in DOMAIN r.defaults}

\* A faulty variant of expandCollection that expands a defined collection to
\* its member list instead of its default spec
expandCollectionMembers(r, name, depth) ==
    IF name \in DOMAIN r.collections
    THEN {Expanding(o, name) : o \in parseSpec(r, Join(r.collections[name]), depth - 1)}
    ELSE IF name \in DOMAIN r.defaults
    THEN {Expanding(o, name) : o \in parseSpec(r, r.defaults[name], depth - 1)}
    ELSE {Failed(Err("UnknownCollection", name))}

\* A faulty variant of expandCollection that expands an unknown name to nothing
expandCollectionLenient(r, name, depth) ==
    IF name \in DOMAIN r.defaults
    THEN {Expanding(o, name) : o \in parseSpec(r, r.defaults[name], depth - 1)}
    ELSE {Parsed(<<>>)}

\* "Handle @collection"
expandCollection(r, name, depth) ==
    IF name \in DOMAIN r.defaults
    THEN {Expanding(o, name) : o \in parseSpec(r, r.defaults[name], depth - 1)}
    ELSE {Failed(Err("UnknownCollection", name))}

\* One iteration of parseSpec's loop: what the token adds to fields, or the
\* error the loop returns
parseToken(r, rawTok, depth) ==
    LET tok == TrimSpace(rawTok)
    IN IF tok = <<>> THEN {Parsed(<<>>)}
       ELSE IF HasPrefix(tok, "@")
       THEN IF Tail(tok) = DefaultName THEN expandDefault(r, depth)
            ELSE expandCollection(r, Tail(tok), depth)
       ELSE {parseFieldToken(r, tok)}

parseTokens(r, tokens, depth) ==
    IF tokens = <<>> THEN {Parsed(<<>>)}
    ELSE LET firsts == parseToken(r, Head(tokens), depth)
             rests == parseTokens(r, Tail(tokens), depth)
         IN UNION {IF f.err.kind # "none" THEN {f}
                   ELSE {IF x.err.kind # "none" THEN x ELSE Parsed(f.fields \o x.fields) :
                             x \in rests} :
                   f \in firsts}

parseSpec(r, spec, depth) ==
    IF depth <= 0 THEN {Failed(StackOverflow)}
    ELSE parseTokens(r, Split(spec, ","), depth)

\* padBytesLeft: append val to dst, truncated or padded to width.  With a
\* negative width val[:width] is out of range and the call panics
\* (padBytesLeftPanics); the operator is then not used.
\* A faulty variant of padBytesLeft that never cuts a value longer than width
padBytesLeftWhole(dst, val, width) ==
    IF Len(val) > width THEN dst \o val
    ELSE dst \o val \o Spaces(width - Len(val))

\* A faulty variant of padBytesLeft that pads one byte short of width
padBytesLeftShort(dst, val, width) ==
    IF Len(val) >= width THEN dst \o SubSeq(val, 1, width)
    ELSE dst \o val \o Spaces(width - Len(val) - 1)

padBytesLeft(dst, val, width) ==
    IF Len(val) > width THEN dst \o SubSeq(val, 1, width)
    ELSE dst \o val \o Spaces(width - Len(val))

padBytesLeftPanics(val, width) == Len(val) > width /\ width < 0

padLeft(dst, s, width) == padBytesLeft(dst, s, width)

\* buildHeader
RECURSIVE buildHeaderFrom(_, _, _, _, _, _)
\* A faulty variant of buildHeaderFrom that pads every column
buildHeaderFromPadded(buf, i, fields, sep, noPadding, padLast) ==
    IF i > Len(fields) THEN buf
    ELSE LET f == fields[i]
             b1 == IF i > 1 THEN buf \o sep ELSE buf
         IN buildHeaderFrom(padLeft(b1, f.Display, f.Width), i + 1, fields, sep,
                            noPadding, padLast)

\* A faulty variant of buildHeaderFrom that does not cut a display text
\* longer than the width
buildHeaderFromUncut(buf, i, fields, sep, noPadding, padLast) ==
    IF i > Len(fields) THEN buf
    ELSE LET f == fields[i]
             b1 == IF i > 1 THEN buf \o sep ELSE buf
             isLast == i = Len(fields)
             b2 == IF noPadding \/ (isLast /\ ~padLast)
                   THEN b1 \o f.Display
                   ELSE b1 \o f.Display \o Spaces(f.Width - Len(f.Display))
         IN buildHeaderFrom(b2, i + 1, fields, sep, noPadding, padLast)

buildHeaderFrom(buf, i, fields, sep, noPadding, padLast) ==
    IF i > Len(fields) THEN buf
    ELSE LET f == fields[i]
             b1 == IF i > 1 THEN buf \o sep ELSE buf
             isLast == i = Len(fields)
             display == IF Len(f.Display) > f.Width
                        THEN SubSeq(f.Display, 1, f.Width) ELSE f.Display
             b2 == IF noPadding \/ (isLast /\ ~padLast)
                   THEN b1 \o display
                   ELSE padLeft(b1, f.Display, f.Width)
         IN buildHeaderFrom(b2, i + 1, fields, sep, noPadding, padLast)

buildHeader(fields, sep, noPadding, padLast) ==
    buildHeaderFrom(<<>>, 1, fields, sep, noPadding, padLast)

\* display[:f.Width] and padLeft both slice out of range on a negative width
buildHeaderPanics(fields) == \E i \in 1..Len(fields) : fields[i].Width < 0

\* A faulty variant of buildUnderline that draws one unbroken line
buildUnderlineSolid(header) == [i \in 1..Len(header) |-> "-"]

buildUnderline(header) ==
    [i \in 1..Len(header) |-> IF header[i] = SP THEN SP ELSE "-"]

\* makeWriter: the column's width and what its write closure captured.  The
\* closures never read noPad.
makeWriter(f, noPad) ==
    [width |-> f.Width,
     kind |-> IF f.Kind \in {KindString, KindInt, KindFloat, KindCustom} THEN f.Kind ELSE 0,
     f |-> f,
     prec |-> IF f.Kind = KindFloat THEN (IF f.Precision < 0 THEN 2 ELSE f.Precision)
              ELSE 0]

Options(sep, noPadding, padLast, noHeader, noUnderline) ==
    [Separator |-> sep, NoPadding |-> noPadding, PadLastColumn |-> padLast,
     NoHeader |-> noHeader, NoUnderline |-> noUnderline]

NoProgram == [header |-> <<>>, underline |-> <<>>, separator |-> <<>>, columns |-> <<>>]

NoResult == [kind |-> "none", prog |-> NoProgram, err |-> NoErr]

\* A faulty variant of compileParsed that builds a Program from no fields
compileParsedAny(o, opts) ==
    LET fields == o.fields
        header == IF opts.NoHeader THEN <<>>
                  ELSE buildHeader(fields, opts.Separator, opts.NoPadding,
                                   opts.PadLastColumn)
    IN IF o.err.kind = "StackOverflow" THEN [NoResult EXCEPT !.kind = "overflow"]
       ELSE IF o.err.kind # "none" THEN [NoResult EXCEPT !.kind = "err", !.err = o.err]
       ELSE IF ~opts.NoHeader /\ buildHeaderPanics(fields)
       THEN [NoResult EXCEPT !.kind = "panic"]
       ELSE [NoResult EXCEPT
                !.kind = "ok",
                !.prog = [header |-> header,
                          underline |-> IF opts.NoUnderline THEN <<>>
                                        ELSE buildUnderline(header),
                          separator |-> opts.Separator,
                          columns |-> [i \in 1..Len(fields) |->
                               makeWriter(fields[i],
                                          opts.NoPadding
                                            \/ (i = Len(fields) /\ ~opts.PadLastColumn))]]]

\* A faulty variant of compileParsed that falls back to two spaces when the
\* separator of the options is empty
compileParsedDefaultSep(o, opts) ==
    LET fields == o.fields
        sep == IF opts.Separator = <<>> THEN <<SP, SP>> ELSE opts.Separator
        header == IF opts.NoHeader THEN <<>>
                  ELSE buildHeader(fields, sep, opts.NoPadding, opts.PadLastColumn)
    IN IF o.err.kind = "StackOverflow" THEN [NoResult EXCEPT !.kind = "overflow"]
       ELSE IF o.err.kind # "none" THEN [NoResult EXCEPT !.kind = "err", !.err = o.err]
       ELSE IF Len(fields) = 0
       THEN [NoResult EXCEPT !.kind = "err", !.err = Err("NoFields", <<>>)]
       ELSE IF ~opts.NoHeader /\ buildHeaderPanics(fields)
       THEN [NoResult EXCEPT !.kind = "panic"]
       ELSE [NoResult EXCEPT
                !.kind = "ok",
                !.prog = [header |-> header,
                          underline |-> IF opts.NoUnderline THEN <<>>
                                        ELSE buildUnderline(header),
                          separator |-> sep,
                          columns |-> [i \in 1..Len(fields) |->
                               makeWriter(fields[i],
                                          opts.NoPadding
                                            \/ (i = Len(fields) /\ ~opts.PadLastColumn))]]]

\* CompileWithOptions once parseSpec has returned o
compileParsed(o, opts) ==
    LET fields == o.fields
        header == IF opts.NoHeader THEN <<>>
                  ELSE buildHeader(fields, opts.Separator, opts.NoPadding,
                                   opts.PadLastColumn)
    IN IF o.err.kind = "StackOverflow" THEN [NoResult EXCEPT !.kind = "overflow"]
       ELSE IF o.err.kind # "none" THEN [NoResult EXCEPT !.kind = "err", !.err = o.err]
       ELSE IF Len(fields) = 0
       THEN [NoResult EXCEPT !.kind = "err", !.err = Err("NoFields", <<>>)]
       ELSE IF ~opts.NoHeader /\ buildHeaderPanics(fields)
       THEN [NoResult EXCEPT !.kind = "panic"]
       ELSE [NoResult EXCEPT
                !.kind = "ok",
                !.prog = [header |-> header,
                          underline |-> IF opts.NoUnderline THEN <<>>
                                        ELSE buildUnderline(header),
                          separator |-> opts.Separator,
                          columns |-> [i \in 1..Len(fields) |->
                               makeWriter(fields[i],
                                          opts.NoPadding
                                            \/ (i = Len(fields) /\ ~opts.PadLastColumn))]]]

\* CompileWithOptions: every result the call can produce
CompileWithOptions(r, spec, opts, depth) ==
    IF spec = <<>> THEN {[NoResult EXCEPT !.kind = "err", !.err = Err("EmptySpec", <<>>)]}
    ELSE {compileParsed(o, opts) : o \in parseSpec(r, spec, depth)}

DefaultOptions == Options(<<SP, SP>>, FALSE, FALSE, FALSE, FALSE)

Compile(r, spec, depth) == CompileWithOptions(r, spec, DefaultOptions, depth)

----------------------------------------------------------------------------
(* Program execution                                                       *)

NL == "\n"

\* The bytes a column formats before padding: what its extractor reads off
\* the record v, rendered by the column's kind
colValue(col, v) ==
    CASE col.kind = KindString -> v[col.f.Get]
      [] col.kind = KindInt -> AppendInt(<<>>, v[col.f.Get])
      [] col.kind = KindFloat -> AppendFloat(<<>>, v[col.f.Get], col.prec)
      [] col.kind = KindCustom -> <<>> \o v[col.f.Get]
      [] OTHER -> <<>>

\* A faulty variant of colWrite that formats onto what tmp already holds
\* instead of cutting it to length 0 first
colWriteKeeping(col, ln, v, t) ==
    CASE col.kind = KindString ->
             [line |-> padLeft(ln, colValue(col, v), col.f.Width), tmp |-> t]
      [] col.kind \in {KindInt, KindFloat, KindCustom} ->
             [line |-> padBytesLeft(ln, t \o colValue(col, v), col.f.Width),
              tmp |-> t \o colValue(col, v)]
      [] OTHER -> [line |-> ln \o Spaces(col.f.Width), tmp |-> t]

\* compiledCol.write: the closure makeWriter built, on the buffers ln and t
colWrite(col, ln, v, t) ==
    CASE col.kind = KindString ->
             [line |-> padLeft(ln, colValue(col, v), col.f.Width), tmp |-> t]
      [] col.kind \in {KindInt, KindFloat, KindCustom} ->
             [line |-> padBytesLeft(ln, colValue(col, v), col.f.Width),
              tmp |-> colValue(col, v)]
      [] OTHER -> [line |-> ln \o Spaces(col.f.Width), tmp |-> t]

colWritePanics(col, v) ==
    col.kind # 0 /\ padBytesLeftPanics(colValue(col, v), col.f.Width)

\* The column loop of WriteRow and FormatRow from column i on
RECURSIVE rowLoop(_, _, _, _, _)
rowLoop(p, v, i, ln, t) ==
    IF i > Len(p.columns) THEN [line |-> ln, tmp |-> t, panic |-> FALSE]
    ELSE LET l1 == IF i > 1 THEN ln \o p.separator ELSE ln
             w == colWrite(p.columns[i], l1, v, t)
         IN IF colWritePanics(p.columns[i], v)
            THEN [line |-> l1,
                  tmp |-> IF p.columns[i].kind = KindString THEN t
                          ELSE colValue(p.columns[i], v),
                  panic |-> TRUE]
            ELSE rowLoop(p, v, i + 1, w.line, w.tmp)

\* FormatRow: the line buffer is cut to length 0, then filled
formatRow(p, v, t) == rowLoop(p, v, 1, <<>>, t)

\* A record to render: the testPerson of the tests plus a Tag for custom
\* formatters; Temp counts eighths (Temp = 5 is 0.625)
Person(name, age, temp, tag) == [Name |-> name, Age |-> age, Temp |-> temp, Tag |-> tag]

NoPerson == Person(<<>>, 0, 0, <<>>)

\* What the last render call was given and returned
NoRet == [op |-> "none", err |-> "nil", str |-> <<>>, v |-> NoPerson]

Ret(op, err, str, v) == [op |-> op, err |-> err, str |-> str, v |-> v]

----------------------------------------------------------------------------
(* Inputs                                                                  *)

MaxRegister == 2
MaxDepth == 4
MaxWrites == 1

\* Field names registered while the catalog is populated: two that differ
\* only in letter case
FieldNames == {<<"a">>, <<"A">>}

\* Two builder chains: reg.Field(name, "Ab", ..).Width(3).String(..) and
\* reg.Field(name, "Cd", ..).Width(5).Int(..)
BuildText(name) == String(Width(Field(name, <<"A", "b">>), 3), "Name")

BuildCount(name) == IntGetter(Width(Field(name, <<"C", "d">>), 5), "Age")

FieldDefs == {BuildText(n) : n \in FieldNames} \cup {BuildCount(n) : n \in FieldNames}

CollC == <<"c">>
CollD == <<"d">>

\* The default specs given to each collection name
DefSpecsOf(name) ==
    CASE name = CollC -> {<<"a", ",", "A">>, <<"a", ",", "@", "d">>, <<"@", "c">>, <<"b">>}
      [] name = CollD -> {<<"A", ":", "2">>, <<"@">> \o DefaultName}
      [] OTHER -> {<<"a">>}

CollNames == {CollC, CollD, DefaultName}

\* Tokens of the specs handed to Compile
FieldTokens ==
    {<<"a">>, <<"A">>, <<"b">>, <<SP, "a", SP>>,
     <<"a", ":", "2">>, <<"A", ":", "7">>, <<"a", ":", SP, "2">>, <<"a", ":", "+", "2">>,
     <<"a", ":", "0">>, <<"a", ":", "-", "1">>, <<"a", ":">>, <<"a", ":", "x">>,
     <<"a", ":", "2", ":", "3">>,
     <<"b", ":", "2">>, <<"b", ":", "0">>, <<"b", ":", "x">>}

RefTokens ==
    {<<"@", "c">>, <<"@", "d">>, <<"@">> \o DefaultName, <<"@", "x">>, <<"@", "C">>,
     <<"@">>}

\* Non-empty specs with nothing between the commas
BlankSpecs == {<<SP>>, <<",">>, <<SP, ",", SP>>}

PairTokens == {<<"a">>, <<"A", ":", "7">>, <<"@", "c">>, <<"b">>, <<"a", ":", "0">>, <<>>}

Specs ==
    {<<>>}
      \cup BlankSpecs \cup FieldTokens \cup RefTokens
      \cup {Join(<<t1, t2>>) : t1 \in PairTokens, t2 \in PairTokens}
      \cup {Join(<<t1, <<"@", "c">>, t2>>) : t1 \in {<<"a">>, <<"@", "d">>}, t2 \in {<<"A">>}}
      \cup {Join(<<<<"@">> \o DefaultName, <<"a">>>>)}

NoCall == [op |-> "none", spec |-> <<>>, opts |-> DefaultOptions]

----------------------------------------------------------------------------
(* Populating the catalog, then compiling against it                       *)

Init ==
    /\ reg = NewRegistry
    /\ call = NoCall
    /\ result = NoResult
    /\ line = <<>>
    /\ tmp = <<>>
    /\ sink = <<>>
    /\ ret = NoRet
    /\ callers = <<>>
    /\ bufs = <<>>

RegisterStep ==
    /\ Len(reg.fieldOrder) < MaxRegister
    /\ \E f \in FieldDefs : reg' = Register(reg, f)
    /\ UNCHANGED <<callers, bufs, call, result, line, tmp, sink, ret>>

DefineCollectionStep ==
    /\ \E d \in DefSpecsOf(CollC) :
           reg' = DefineCollection(reg, CollC, d, <<<<"a">>, <<"A">>>>)
    /\ UNCHANGED <<callers, bufs, call, result, line, tmp, sink, ret>>

SetDefaultsStep ==
    /\ \E c \in CollNames : \E d \in DefSpecsOf(c) : reg' = SetDefaults(reg, c, d)
    /\ UNCHANGED <<callers, bufs, call, result, line, tmp, sink, ret>>

CompileStep ==
    /\ call.op = "none"
    /\ \E spec \in Specs :
           /\ call' = [op |-> "Compile", spec |-> spec, opts |-> DefaultOptions]
           /\ result' \in Compile(reg, spec, MaxDepth)
    /\ UNCHANGED <<callers, bufs, reg, line, tmp, sink, ret>>

\* Construction is complete before a Program is built
Populating == call.op = "none"

Next ==
    \/ Populating /\ RegisterStep
    \/ Populating /\ DefineCollectionStep
    \/ Populating /\ SetDefaultsStep
    \/ CompileStep

Spec == Init /\ [][Next]_vars

----------------------------------------------------------------------------
(* Rendering with a Program compiled against a populated catalog           *)

\* The catalog the rendering runs start from: one field of each kind, a
\* field registered with no kind and no width, and fields of width 0 and -1
RenderFields ==
    <<String(Width(Field(<<"n">>, <<"N", "m">>), 3), "Name"),
      IntGetter(Width(Field(<<"g">>, <<"A", "g", "e">>), 2), "Age"),
      Float(Width(Field(<<"t">>, <<"T">>), 3), 1, "Temp"),
      Float(Width(Field(<<"p">>, <<"P">>), 5), -1, "Temp"),
      Custom(Width(Field(<<"c">>, <<"C", SP, "x">>), 2), "Tag"),
      Field(<<"u">>, <<"U">>),
      String(Width(Field(<<"z">>, <<"Z">>), 0), "Name"),
      IntGetter(Width(Field(<<"m">>, <<"M">>), -1), "Age")>>

RECURSIVE RegisterAll(_, _)
RegisterAll(r, fs) == IF fs = <<>> THEN r ELSE RegisterAll(Register(r, Head(fs)), Tail(fs))

RenderRegistry == RegisterAll(NewRegistry, RenderFields)

FirstTokens == {<<"n">>, <<"g">>, <<"c">>, <<"n", ":", "1">>}

SecondTokens == {<<"n">>, <<"p">>, <<"c">>, <<"g", ":", "4">>}

RenderSpecs ==
    FirstTokens \cup SecondTokens \cup {<<"t">>, <<"u">>, <<"z">>, <<"m">>}
      \cup {Join(<<t1, t2>>) : t1 \in FirstTokens, t2 \in SecondTokens}

RenderOptions ==
    {Options(sep, np, pl, FALSE, FALSE) :
        sep \in {<<SP, SP>>, <<",">>}, np \in BOOLEAN, pl \in BOOLEAN}
      \cup {Options(<<>>, FALSE, FALSE, FALSE, FALSE)}
      \cup {Options(<<SP, SP>>, FALSE, FALSE, TRUE, nu) : nu \in BOOLEAN}

Records ==
    {Person(<<"A", "l">>, 7, 5, <<"x">>),
     Person(<<"A", "l", "i", "c", "e">>, 30, 788, <<"x", "y", "z">>),
     Person(<<"a", SP>>, -12, -1, <<"x", SP>>)}

\* The errors the sink's Write returns: none, or an I/O error
WriteErrors == {"nil", "EIO"}

InitRender ==
    /\ reg = RenderRegistry
    /\ call = NoCall
    /\ result = NoResult
    /\ line = <<>>
    /\ tmp = <<>>
    /\ sink = <<>>
    /\ ret = NoRet
    /\ callers = <<>>
    /\ bufs = <<>>

CompileWithOptionsStep ==
    /\ call.op = "none"
    /\ \E spec \in RenderSpecs : \E opts \in RenderOptions :
           /\ call' = [op |-> "CompileWithOptions", spec |-> spec, opts |-> opts]
           /\ result' \in CompileWithOptions(reg, spec, opts, MaxDepth)
    /\ UNCHANGED <<callers, bufs, reg, line, tmp, sink, ret>>

\* A render call needs a Program, and a goroutine that has not panicked
CanRender == result.kind = "ok" /\ ret.err # "panic"

WriteHeaderStep ==
    /\ CanRender
    /\ Len(sink) < MaxWrites
    /\ \E werr \in WriteErrors :
           /\ line' = result.prog.header \o <<NL>>
           /\ sink' = Append(sink, [data |-> line', err |-> werr])
           /\ ret' = Ret("WriteHeader", werr, <<>>, NoPerson)
    /\ UNCHANGED <<callers, bufs, reg, call, result, tmp>>

WriteUnderlineStep ==
    /\ CanRender
    /\ Len(sink) < MaxWrites
    /\ \E werr \in WriteErrors :
           /\ line' = result.prog.underline \o <<NL>>
           /\ sink' = Append(sink, [data |-> line', err |-> werr])
           /\ ret' = Ret("WriteUnderline", werr, <<>>, NoPerson)
    /\ UNCHANGED <<callers, bufs, reg, call, result, tmp>>

\* A faulty variant of WriteRowStep that hands the line to the sink after
\* every column instead of once at the end
WriteRowFlushing ==
    /\ CanRender
    /\ Len(sink) < MaxWrites
    /\ \E v \in Records : \E werr \in WriteErrors :
           LET r == formatRow(result.prog, v, tmp)
               n == Len(result.prog.columns)
               upTo(i) == formatRow([result.prog EXCEPT
                                        !.columns = SubSeq(result.prog.columns, 1, i)],
                                    v, tmp).line
           IN IF r.panic
              THEN /\ line' = r.line
                   /\ tmp' = r.tmp
                   /\ sink' = sink
                   /\ ret' = Ret("WriteRow", "panic", <<>>, v)
              ELSE /\ line' = r.line \o <<NL>>
                   /\ tmp' = r.tmp
                   /\ sink' = sink \o [i \in 1..n |->
                                 [data |-> IF i = n THEN line' ELSE upTo(i),
                                  err |-> werr]]
                   /\ ret' = Ret("WriteRow", werr, <<>>, v)
    /\ UNCHANGED <<callers, bufs, reg, call, result>>

WriteRowStep ==
    /\ CanRender
    /\ Len(sink) < MaxWrites
    /\ \E v \in Records : \E werr \in WriteErrors :
           LET r == formatRow(result.prog, v, tmp)
           IN IF r.panic
              THEN /\ line' = r.line
                   /\ tmp' = r.tmp
                   /\ sink' = sink
                   /\ ret' = Ret("WriteRow", "panic", <<>>, v)
              ELSE /\ line' = r.line \o <<NL>>
                   /\ tmp' = r.tmp
                   /\ sink' = Append(sink, [data |-> line', err |-> werr])
                   /\ ret' = Ret("WriteRow", werr, <<>>, v)
    /\ UNCHANGED <<callers, bufs, reg, call, result>>

FormatRowStep ==
    /\ CanRender
    /\ \E v \in Records :
           LET r == formatRow(result.prog, v, tmp)
           IN /\ line' = r.line
              /\ tmp' = r.tmp
              /\ ret' = IF r.panic THEN Ret("FormatRow", "panic", <<>>, v)
                        ELSE Ret("FormatRow", "nil", r.line, v)
    /\ UNCHANGED <<callers, bufs, reg, call, result, sink>>

NextRender ==
    \/ CompileWithOptionsStep
    \/ WriteHeaderStep
    \/ WriteUnderlineStep
    \/ WriteRowStep
    \/ FormatRowStep

SpecRender == InitRender /\ [][NextRender]_vars

----------------------------------------------------------------------------
(* Rendered rows: C1 to C4, checked under SpecRender                       *)

\* The last render call produced a row
RowRendered == ret.op \in {"WriteRow", "FormatRow"} /\ ret.err # "panic"

\* The row it produced: FormatRow's string, or the payload WriteRow handed
\* to the sink less its newline
RowText ==
    IF ret.op = "FormatRow" THEN ret.str
    ELSE SubSeq(sink[Len(sink)].data, 1, Len(sink[Len(sink)].data) - 1)

Cols == result.prog.columns

\* The full formatted representation of the rendered record's value in column i
Val(i) == colValue(Cols[i], ret.v)

AllKindsKnown == \A i \in 1..Len(Cols) : Cols[i].kind # 0 /\ Cols[i].width >= 0

Truncated(val, w) == IF Len(val) > w THEN SubSeq(val, 1, w) ELSE val

PaddedTo(val, w) == Truncated(val, w) \o Spaces(w - Len(val))

RECURSIVE JoinWith(_, _)
JoinWith(parts, sep) ==
    IF parts = <<>> THEN <<>>
    ELSE IF Len(parts) = 1 THEN Head(parts)
    ELSE Head(parts) \o sep \o JoinWith(Tail(parts), sep)

\* The row the padding rule of the options describes: a column is left
\* unpadded when noPadding is set or it is the last one and padLast is not
ClaimedRow(noPadding, padLast) ==
    JoinWith([i \in 1..Len(Cols) |->
                 IF noPadding \/ (i = Len(Cols) /\ ~padLast)
                 THEN Truncated(Val(i), Cols[i].width)
                 ELSE PaddedTo(Val(i), Cols[i].width)],
             result.prog.separator)

\* C1: with NoPadding and PadLastColumn both false, every row has its last
\* column truncated to its width and not padded, and every other column
\* padded to exactly its width.
C1_LastColumnUnpadded ==
    (RowRendered /\ AllKindsKnown /\ ~call.opts.NoPadding /\ ~call.opts.PadLastColumn)
        => RowText = ClaimedRow(FALSE, FALSE)

\* C2: with NoPadding set, every row is the values, each truncated to its
\* column's width, joined by the separator, with no spaces appended.
C2_NoPaddingRow ==
    (RowRendered /\ AllKindsKnown /\ call.opts.NoPadding)
        => RowText = ClaimedRow(TRUE, call.opts.PadLastColumn)

\* Where column i starts in a row: after the columns before it, each of its
\* width, and a separator after each
RECURSIVE Offset(_)
Offset(i) ==
    IF i = 1 THEN 0
    ELSE Offset(i - 1) + Cols[i - 1].width + Len(result.prog.separator)

\* The bytes column i contributes to the row
FieldAt(i) == SubSeq(RowText, Offset(i) + 1, Offset(i) + Cols[i].width)

RowFilled == Len(RowText) = Offset(Len(Cols)) + Cols[Len(Cols)].width

IsLong(i) == Cols[i].kind # 0 /\ Len(Val(i)) > Cols[i].width

\* C3: a column of kind String, Int, Float or Custom whose value formats to
\* more bytes than its width contributes exactly the first width bytes of
\* the formatted value.
C3_Truncation ==
    RowRendered =>
        /\ RowFilled
        /\ \A i \in 1..Len(Cols) :
               IsLong(i) => FieldAt(i) = SubSeq(Val(i), 1, Cols[i].width)

\* A row was rendered whose first column cut a String value to one byte
\* and whose second cut a Custom value
C3_Witness ==
    /\ RowRendered
    /\ Len(Cols) = 2
    /\ Cols[1].kind = KindString /\ IsLong(1) /\ Cols[1].width = 1
    /\ Cols[2].kind = KindCustom /\ IsLong(2)
    /\ FieldAt(1) = <<"A">>

\* A column the options ask to pad: NoPadding false, and not the last
\* column unless PadLastColumn is set
AskedToPad(i) ==
    ~call.opts.NoPadding /\ (i < Len(Cols) \/ call.opts.PadLastColumn)

Fits(i) == Cols[i].kind # 0 /\ Len(Val(i)) <= Cols[i].width

EndsInSpace(val) == val # <<>> /\ val[Len(val)] = SP

\* C4 as stated: in a padded column a value no longer than the width fills
\* exactly width bytes, and trimming the trailing spaces gives the value back.
C4_RoundTripAnyValue ==
    RowRendered =>
        \A i \in 1..Len(Cols) :
            (AskedToPad(i) /\ Fits(i)) =>
                /\ Len(FieldAt(i)) = Cols[i].width
                /\ TrimRight(FieldAt(i)) = Val(i)

\* C4, amended: the same for every value that does not itself end in a space.
C4_RoundTrip ==
    RowRendered =>
        \A i \in 1..Len(Cols) :
            (AskedToPad(i) /\ Fits(i) /\ ~EndsInSpace(Val(i))) =>
                /\ RowFilled
                /\ Len(FieldAt(i)) = Cols[i].width
                /\ TrimRight(FieldAt(i)) = Val(i)

\* A row was rendered with a padded first column whose value is shorter
\* than the width
C4_Witness ==
    /\ RowRendered
    /\ Len(Cols) = 2
    /\ AskedToPad(1) /\ Fits(1) /\ ~EndsInSpace(Val(1))
    /\ Len(Val(1)) < Cols[1].width
    /\ Val(1) # <<>>

----------------------------------------------------------------------------
(* Compiling against the catalog: C5 to C10, checked under Spec            *)

Compiled == call.op = "Compile"

\* The comma-separated tokens of a spec, as written and trimmed
RawTokens(spec) == Split(spec, ",")

Tokens(spec) == [i \in 1..Len(RawTokens(spec)) |-> TrimSpace(RawTokens(spec)[i])]

IsFieldToken(t) == t # <<>> /\ ~HasPrefix(t, "@")

HasWidthPart(t) == IndexByte(t, ":") # 0

NamePart(t) ==
    IF HasWidthPart(t) THEN TrimSpace(SubSeq(t, 1, IndexByte(t, ":") - 1)) ELSE t

WidthPart(t) == TrimSpace(SubSeq(t, IndexByte(t, ":") + 1, Len(t)))

\* No registered field has this token's name, whatever the letter case
NamesNoField(t) == \A n \in DOMAIN reg.fields : ToLower(n) # ToLower(NamePart(t))

\* A token that cannot fail: blank, or exactly the name of a registered field
PlainlyGood(t) == t = <<>> \/ t \in DOMAIN reg.fields

\* The token at which compiling spec first meets anything but a plainly good
\* token, followed through the default specs of registered collections (at
\* most d levels): the token a failure is about, if the compile fails
RECURSIVE Culprits(_, _)
Culprits(spec, d) ==
    LET toks == Tokens(spec)
        bad == {i \in 1..Len(toks) : ~PlainlyGood(toks[i])}
        first == CHOOSE i \in bad : \A j \in bad : i <= j
        t == toks[first]
    IN IF bad = {} \/ d = 0 THEN {}
       ELSE IF HasPrefix(t, "@") /\ Tail(t) # DefaultName /\ Tail(t) \in DOMAIN reg.defaults
       THEN Culprits(reg.defaults[Tail(t)], d - 1)
       ELSE {t}

\* Compile returned an error of one of these kinds about arg, and no Program
FailsWith(kinds, arg) ==
    /\ result.kind = "err"
    /\ result.err.kind \in kinds
    /\ result.err.arg = arg
    /\ result.prog = NoProgram

\* The Programs compiling spec can return with room for d nested expansions
OkProgs(spec, d) == {r.prog : r \in {x \in Compile(reg, spec, d) : x.kind = "ok"}}

\* spec with its i-th token replaced by the text of the default spec of the
\* collection that token names
Spliced(spec, i) ==
    Join([RawTokens(spec) EXCEPT ![i] = reg.defaults[Tail(Tokens(spec)[i])]])

RefsCollection(t) == HasPrefix(t, "@") /\ Tail(t) \in DOMAIN reg.defaults

\* Compiling spec and compiling it with token i spliced give the same
\* Programs: what was compiled is a result of the spliced spec, and every
\* result of the spliced spec is a result of spec given one more level
SpliceEquivalent(i) ==
    /\ result.kind = "ok" => result.prog \in OkProgs(Spliced(call.spec, i), MaxDepth)
    /\ OkProgs(Spliced(call.spec, i), MaxDepth) \subseteq OkProgs(call.spec, MaxDepth + 1)

AllFieldTokens(spec) == \A i \in 1..Len(Tokens(spec)) : IsFieldToken(Tokens(spec)[i])

OverrideWidths == 1..9

\* C6: a field token "name:w" with w a positive integer compiles to a column
\* of width w whatever width the field was registered with, and a token with
\* no width compiles to the registered width.
C6_OverridePrecedence ==
    (Compiled /\ result.kind = "ok" /\ AllFieldTokens(call.spec)) =>
        /\ Len(Cols) = Len(Tokens(call.spec))
        /\ \A i \in 1..Len(Cols) :
               LET t == Tokens(call.spec)[i]
               IN /\ \A w \in OverrideWidths :
                         t = NamePart(t) \o <<":">> \o NatDigits(w) => Cols[i].width = w
                  /\ ~HasWidthPart(t) => Cols[i].width = get(reg, t).f.Width

\* "A:7" compiled where A is registered with another width, beside a token
\* with no width
C6_Witness ==
    /\ Compiled
    /\ call.spec = <<"a", ",", "A", ":", "7">>
    /\ result.kind = "ok"
    /\ <<"A">> \in DOMAIN reg.fields
    /\ reg.fields[<<"A">>].Width # 7
    /\ Cols[2].width = 7

\* C7: every token that equals a registered field's name up to letter case
\* resolves to that one field.
C7_CaseInsensitiveSameField ==
    (Compiled /\ Len(Tokens(call.spec)) = 1 /\ IsFieldToken(call.spec)
        /\ ~HasWidthPart(call.spec)) =>
        \A n \in DOMAIN reg.fields :
            ToLower(n) = ToLower(call.spec) =>
                /\ result.kind = "ok"
                /\ Cols[1].f = reg.fields[n]

\* C8 as stated: Compile fails with an unknown-field error naming the token
\* whenever the token it reaches, at top level or inside an expanded default
\* spec, names no registered field.
C8_UnknownFieldAnyWidth ==
    Compiled =>
        \A t \in Culprits(call.spec, MaxDepth) :
            (IsFieldToken(t) /\ NamesNoField(t)) => FailsWith({"UnknownField"}, NamePart(t))

\* C8, amended: the same for tokens with no width part or with a width part
\* that is a positive integer.
C8_UnknownField ==
    Compiled =>
        \A t \in Culprits(call.spec, MaxDepth) :
            (IsFieldToken(t) /\ NamesNoField(t)
                /\ (HasWidthPart(t) =>
                        Atoi(WidthPart(t)).ok /\ Atoi(WidthPart(t)).val > 0))
                => FailsWith({"UnknownField"}, NamePart(t))

\* "@c" compiled where c's default spec is the unregistered name "b"
C8_Witness ==
    /\ Compiled
    /\ call.spec = <<"@", "c">>
    /\ CollC \in DOMAIN reg.defaults
    /\ reg.defaults[CollC] = <<"b">>
    /\ reg.fields # <<>>
    /\ FailsWith({"UnknownField"}, <<"b">>)
    /\ result.err.via = <<CollC>>

InvalidWidth == {"EmptyWidth", "UnparsableWidth", "NonPositiveWidth"}

\* C9: Compile fails with an invalid-width error, and returns no Program,
\* whenever the token it reaches has a width part that is empty, not an
\* integer, zero or negative.
C9_InvalidWidth ==
    Compiled =>
        \A t \in Culprits(call.spec, MaxDepth) :
            (IsFieldToken(t) /\ HasWidthPart(t)
                /\ (\/ WidthPart(t) = <<>>
                    \/ ~Atoi(WidthPart(t)).ok
                    \/ Atoi(WidthPart(t)).val <= 0))
                => /\ result.kind = "err"
                   /\ result.err.kind \in InvalidWidth
                   /\ result.prog = NoProgram

\* C10: Compile fails with an unknown-collection error, and returns no
\* Program, whenever the token it reaches is "@x" with x not the literal
\* "default" and x without a registered default spec.
C10_UnknownCollection ==
    Compiled =>
        \A t \in Culprits(call.spec, MaxDepth) :
            (HasPrefix(t, "@") /\ Tail(t) # DefaultName /\ Tail(t) \notin DOMAIN reg.defaults)
                => FailsWith({"UnknownCollection"}, Tail(t))

\* "@C" compiled where only the collection "c" has a default spec
C10_Witness ==
    /\ Compiled
    /\ call.spec = <<"@", "C">>
    /\ DOMAIN reg.defaults = {CollC}
    /\ FailsWith({"UnknownCollection"}, <<"C">>)

----------------------------------------------------------------------------
(* Compile's outcomes: C11 to C13, checked under Spec                      *)

\* A non-empty spec made of commas and spaces only
OnlyBlank(spec) == spec # <<>> /\ \A i \in 1..Len(spec) : spec[i] \in {SP, ","}

\* C11: Compile of the empty string fails with the empty-spec error, Compile
\* of a non-empty spec of blank tokens only fails with the no-fields error,
\* and every Program Compile returns has at least one column.
C11_EmptyOrNoFields ==
    Compiled =>
        /\ call.spec = <<>> => FailsWith({"EmptySpec"}, <<>>)
        /\ OnlyBlank(call.spec) => FailsWith({"NoFields"}, <<>>)
        /\ result.kind = "ok" => Len(Cols) >= 1

\* " , " compiled against a catalog that has a field, and failed for want
\* of fields
C11_Witness ==
    /\ Compiled
    /\ call.spec = <<SP, ",", SP>>
    /\ reg.fields # <<>>
    /\ FailsWith({"NoFields"}, <<>>)

\* C12: Compile always returns, a Program or an error, whatever references
\* the default specs of the catalog make, to themselves included.
C12_CompileReturns == Compiled => result.kind \in {"ok", "err"}

\* Two Programs give the same header, underline and rows
SameOutput(p, q) ==
    /\ p.header = q.header
    /\ p.underline = q.underline
    /\ \A v \in Records : formatRow(p, v, <<>>) = formatRow(q, v, <<>>)

\* C13: compiling the spec again against the unchanged catalog gives a
\* Program with the same header, underline and rows as the one compiled,
\* for specs with "@default" too.
C13_Deterministic ==
    Compiled =>
        \A again \in Compile(reg, call.spec, MaxDepth) :
            (result.kind = "ok" /\ again.kind = "ok") => SameOutput(result.prog, again.prog)

----------------------------------------------------------------------------
(* Mutating the catalog after a Program was compiled against it            *)

\* The catalog the Program is compiled against: fields "a" and "A" and the
\* collection "c" of both
FrameRegistry ==
    DefineCollection(Register(Register(NewRegistry, BuildText(<<"a">>)),
                              BuildCount(<<"A">>)),
                     CollC, <<"a", ",", "A">>, <<<<"a">>, <<"A">>>>)

FrameSpecs == {<<"a">>, <<"@", "c">>, <<"A", ":", "7", ",", "a">>}

\* Registrations made after compiling: "a" again with another width and
\* display, "a" again with another kind and extractor, and a new name
FrameDefs ==
    {String(Width(Field(<<"a">>, <<"Z">>), 7), "Name"),
     IntGetter(Width(Field(<<"a">>, <<"A", "b">>), 3), "Age"),
     BuildCount(<<"b">>)}

InitFrame ==
    /\ reg = FrameRegistry
    /\ call = NoCall
    /\ result = NoResult
    /\ line = <<>>
    /\ tmp = <<>>
    /\ sink = <<>>
    /\ ret = NoRet
    /\ callers = <<>>
    /\ bufs = <<>>

CompileFrameStep ==
    /\ call.op = "none"
    /\ \E spec \in FrameSpecs :
           /\ call' = [op |-> "Compile", spec |-> spec, opts |-> DefaultOptions]
           /\ result' \in Compile(reg, spec, MaxDepth)
    /\ UNCHANGED <<callers, bufs, reg, line, tmp, sink, ret>>

\* A faulty variant of RegisterAgainStep in which the Program's columns
\* share the registered field instead of holding a copy of it
RegisterAgainShared ==
    /\ Len(reg.fieldOrder) < MaxRegister + 1
    /\ \E f \in FrameDefs :
           /\ reg' = Register(reg, f)
           /\ result' = [result EXCEPT !.prog.columns =
                  [i \in 1..Len(result.prog.columns) |->
                      IF result.prog.columns[i].f.Name = f.Name
                      THEN makeWriter(f, FALSE)
                      ELSE result.prog.columns[i]]]
    /\ UNCHANGED <<callers, bufs, call, line, tmp, sink, ret>>

\* FieldBuilder.Register on the catalog a Program was compiled against: the
\* map entry is replaced by the builder's Field value, and the Program's
\* columns keep the values reg.get returned when they were compiled
RegisterAgainStep ==
    /\ Len(reg.fieldOrder) < MaxRegister + 1
    /\ \E f \in FrameDefs : reg' = Register(reg, f)
    /\ UNCHANGED <<callers, bufs, call, result, line, tmp, sink, ret>>

Built == call.op # "none" /\ result.kind = "ok"

NextFrame ==
    \/ CompileFrameStep
    \/ Built /\ RegisterAgainStep
    \/ Built /\ DefineCollectionStep
    \/ Built /\ SetDefaultsStep
    \/ WriteRowStep

SpecFrame == InitFrame /\ [][NextFrame]_vars

\* C14: once Compile has returned a Program, no Register, DefineCollection
\* or SetDefaults on the catalog, and no render, changes the Program's
\* header, its underline or the bytes of any row it renders.
C14_ProgramUnaffected ==
    [][Built => (Built' /\ SameOutput(result.prog, result'.prog))]_vars

\* A row was written by a Program compiled from "a" after "a" was registered
\* again with width 7 and collection c was given another default spec: the
\* row has the width the Program was compiled with
C14_Witness ==
    /\ Built
    /\ call.spec = <<"a">>
    /\ reg.fields[<<"a">>].Width = 7
    /\ reg.defaults[CollC] = <<"b">>
    /\ ret.op = "WriteRow"
    /\ ret.v.Name = <<"A", "l">>
    /\ RowText = <<"A", "l", SP>>

----------------------------------------------------------------------------
(* Writing to the sink: C15 and C16, checked under SpecRender              *)

\* The whole line a completed write call is to hand over, less its newline:
\* the header, the underline, or every column of the record cut or padded
\* to its width with the separator between columns
WholeLine(rt) ==
    CASE rt.op = "WriteHeader" -> result.prog.header
      [] rt.op = "WriteUnderline" -> result.prog.underline
      [] OTHER ->
           JoinWith([i \in 1..Len(Cols) |->
                        IF Cols[i].kind = 0 THEN Spaces(Cols[i].width)
                        ELSE PaddedTo(colValue(Cols[i], rt.v), Cols[i].width)],
                    result.prog.separator)

\* A step in which a write call completes: the sink received something, or
\* the last call returned is now another, a write call that did not panic
WriteOps == {"WriteHeader", "WriteUnderline", "WriteRow"}

WriteCall ==
    \/ sink' # sink
    \/ ret' # ret /\ ret'.op \in WriteOps /\ ret'.err # "panic"

\* C15: every WriteHeader, WriteUnderline and WriteRow call that completes
\* hands the sink one payload, after what the sink already has: the whole
\* line followed by one newline.
C15_OneWholeLine ==
    [][WriteCall =>
          /\ ret'.op \in WriteOps
          /\ Len(sink') = Len(sink) + 1
          /\ SubSeq(sink', 1, Len(sink)) = sink
          /\ sink'[Len(sink')].data = WholeLine(ret') \o <<NL>>]_vars

\* WriteRow of a two-column Program with a separator handed the sink its
\* one payload
C15_Witness ==
    /\ ret.op = "WriteRow"
    /\ ret.err # "panic"
    /\ Len(Cols) = 2
    /\ result.prog.separator # <<>>
    /\ Len(sink) = 1
    /\ sink[1].data = WholeLine(ret) \o <<NL>>

----------------------------------------------------------------------------
(* Several callers rendering with one Program at the same time             *)

MaxCalls == 2

Callers == {1, 2}

\* The Programs the callers share: compiled from these specs with the
\* default options against the rendering catalog
ConcSpecs == {<<"n", ",", "g">>, <<"g", ",", "c">>}

\* A faulty variant of bufOf in which every caller passes the same buffers
bufShared(c) == 1

\* The buffers caller c passes as line and tmp: its own
bufOf(c) == c

Idle == [pc |-> "idle", op |-> "none", v |-> NoPerson, i |-> 0, log |-> <<>>]

InitConc ==
    /\ reg = RenderRegistry
    /\ \E spec \in ConcSpecs :
           /\ call = [op |-> "Compile", spec |-> spec, opts |-> DefaultOptions]
           /\ result \in Compile(reg, spec, MaxDepth)
    /\ line = <<>>
    /\ tmp = <<>>
    /\ sink = <<>>
    /\ ret = NoRet
    /\ callers = [c \in Callers |-> Idle]
    /\ bufs = [b \in Callers |-> [line |-> <<>>, tmp |-> <<>>]]

\* The render calls started so far, returned or not
RECURSIVE CallsOf(_)
CallsOf(S) ==
    IF S = {} THEN 0
    ELSE LET c == CHOOSE x \in S : TRUE
         IN Len(callers[c].log) + (IF callers[c].pc = "idle" THEN 0 ELSE 1)
              + CallsOf(S \ {c})

CanBegin(c) == callers[c].pc = "idle" /\ CallsOf(Callers) < MaxCalls

\* WriteHeader and WriteUnderline up to their first append:
\* *line = append((*line)[:0], p.header...), or p.underline
BeginHeader(c) ==
    /\ CanBegin(c)
    /\ \E op \in {"WriteHeader", "WriteUnderline"} :
           /\ bufs' = [bufs EXCEPT ![bufOf(c)].line =
                  IF op = "WriteHeader" THEN result.prog.header
                  ELSE result.prog.underline]
           /\ callers' = [callers EXCEPT ![c].pc = "write", ![c].op = op,
                                         ![c].v = NoPerson]
    /\ UNCHANGED <<reg, call, result, line, tmp, sink, ret>>

\* WriteRow up to its loop: *line = (*line)[:0]
BeginRow(c) ==
    /\ CanBegin(c)
    /\ \E v \in Records :
           callers' = [callers EXCEPT ![c].pc = "format", ![c].op = "WriteRow",
                                      ![c].v = v, ![c].i = 1]
    /\ bufs' = [bufs EXCEPT ![bufOf(c)].line = <<>>]
    /\ UNCHANGED <<reg, call, result, line, tmp, sink, ret>>

\* One iteration of WriteRow's loop up to the column's padding call: the
\* separator is appended to line, and an Int, Float or Custom column formats
\* its value into tmp
FormatStep(c) ==
    LET col == result.prog.columns[callers[c].i]
        b == bufs[bufOf(c)]
        l1 == IF callers[c].i > 1 THEN b.line \o result.prog.separator ELSE b.line
    IN /\ callers[c].pc = "format"
       /\ bufs' = [bufs EXCEPT ![bufOf(c)] =
              [line |-> l1,
               tmp |-> IF col.kind \in {KindInt, KindFloat, KindCustom}
                       THEN colValue(col, callers[c].v) ELSE b.tmp]]
       /\ callers' = [callers EXCEPT ![c].pc = "pad"]
       /\ UNCHANGED <<reg, call, result, line, tmp, sink, ret>>

\* The rest of the iteration: the column pads its value onto line
PadStep(c) ==
    LET col == result.prog.columns[callers[c].i]
        b == bufs[bufOf(c)]
    IN /\ callers[c].pc = "pad"
       /\ bufs' = [bufs EXCEPT ![bufOf(c)].line =
              CASE col.kind = KindString ->
                       padLeft(b.line, colValue(col, callers[c].v), col.f.Width)
                [] col.kind \in {KindInt, KindFloat, KindCustom} ->
                       padBytesLeft(b.line, b.tmp, col.f.Width)
                [] OTHER -> b.line \o Spaces(col.f.Width)]
       /\ callers' = [callers EXCEPT
              ![c].i = @ + 1,
              ![c].pc = IF callers[c].i < Len(result.prog.columns) THEN "format"
                        ELSE "write"]
       /\ UNCHANGED <<reg, call, result, line, tmp, sink, ret>>

\* A faulty variant of WriteStep that hands the line over again when the
\* sink's Write fails, and returns what the second Write returns
WriteStepRetry(c) ==
    /\ callers[c].pc = "write"
    /\ \E werr \in WriteErrors : \E werr2 \in WriteErrors :
           LET data == bufs[bufOf(c)].line \o <<NL>>
               first == [data |-> data, err |-> werr]
           IN /\ bufs' = [bufs EXCEPT ![bufOf(c)].line = data]
              /\ sink' = IF werr = "nil" THEN Append(sink, first)
                         ELSE sink \o <<first, [data |-> data, err |-> werr2]>>
              /\ callers' = [callers EXCEPT
                     ![c].pc = "idle",
                     ![c].log = Append(@, [op |-> callers[c].op, v |-> callers[c].v,
                                           data |-> data,
                                           err |-> IF werr = "nil" THEN werr ELSE werr2])]
    /\ UNCHANGED <<reg, call, result, line, tmp, ret>>

\* The end of WriteHeader, WriteUnderline and WriteRow: the newline is appended, the line is
\* handed to the sink's Write, and what Write returns is returned
WriteStep(c) ==
    /\ callers[c].pc = "write"
    /\ \E werr \in WriteErrors :
           LET data == bufs[bufOf(c)].line \o <<NL>>
           IN /\ bufs' = [bufs EXCEPT ![bufOf(c)].line = data]
              /\ sink' = Append(sink, [data |-> data, err |-> werr])
              /\ callers' = [callers EXCEPT
                     ![c].pc = "idle",
                     ![c].log = Append(@, [op |-> callers[c].op, v |-> callers[c].v,
                                           data |-> data, err |-> werr])]
    /\ UNCHANGED <<reg, call, result, line, tmp, ret>>

NextConc ==
    \/ \E c \in Callers : BeginHeader(c)
    \/ \E c \in Callers : BeginRow(c)
    \/ \E c \in Callers : FormatStep(c)
    \/ \E c \in Callers : PadStep(c)
    \/ \E c \in Callers : WriteStep(c)

SpecConc == InitConc /\ [][NextConc]_vars

\* What a call made alone, one call after another, hands the sink: the
\* header, the underline or the row of the record, and a newline
Sequential(e) ==
    IF e.op = "WriteHeader" THEN result.prog.header \o <<NL>>
    ELSE IF e.op = "WriteUnderline" THEN result.prog.underline \o <<NL>>
    ELSE formatRow(result.prog, e.v, <<>>).line \o <<NL>>

\* Caller c's call returns in this step
Returns(c) == Len(callers'[c].log) = Len(callers[c].log) + 1

LastCall(c) == callers'[c].log[Len(callers'[c].log)]

SinkFailed == \E k \in 1..Len(sink) : sink[k].err # "nil"

\* C16: a render call hands its line to the sink once and returns what that
\* Write returned, an error included; the Program is left as it was; and a
\* call made after a Write has failed hands over the same bytes as it would
\* have otherwise.
C16_WriteErrorReturned ==
    [][\A c \in Callers :
          Returns(c) =>
              /\ Len(sink') = Len(sink) + 1
              /\ LastCall(c).err = sink'[Len(sink')].err
              /\ result' = result
              /\ SinkFailed => /\ LastCall(c).data = Sequential(LastCall(c))
                               /\ sink'[Len(sink')].data = Sequential(LastCall(c))]_vars

\* A caller's WriteRow failed with the sink's error, and its next WriteRow
\* handed over the whole row
C16_Witness ==
    \E c \in Callers :
        /\ Len(callers[c].log) = 2
        /\ callers[c].log[1].op = "WriteRow" /\ callers[c].log[1].err = "EIO"
        /\ callers[c].log[2].op = "WriteRow" /\ callers[c].log[2].err = "nil"
        /\ callers[c].log[2].data = Sequential(callers[c].log[2])
        /\ Len(sink) = 2
        /\ sink[1].err = "EIO"
        /\ sink[2] = [data |-> callers[c].log[2].data, err |-> "nil"]

\* C17: with a line and a tmp buffer of its own for each caller, every call
\* hands the sink the bytes the same call made alone would, however the
\* callers' steps interleave, and no step changes the Program.
C17_ConcurrentRender ==
    [][/\ result' = result
       /\ \A c \in Callers : \A k \in 1..Len(callers'[c].log) :
              callers'[c].log[k].data = Sequential(callers'[c].log[k])]_vars

\* Two callers are inside WriteRow at once, on different records, one with
\* its row assembled and the other between its columns, and the first
\* caller's line is the row of its record
C17_Witness ==
    /\ callers[1].pc = "write" /\ callers[1].op = "WriteRow"
    /\ callers[2].pc = "pad" /\ callers[2].i = 2
    /\ callers[1].v # callers[2].v
    /\ bufs[1].line \o <<NL>> = Sequential(callers[1])
    /\ bufs[2].tmp # bufs[1].tmp

----------------------------------------------------------------------------
(* Header and underline: C18 and C19, checked under SpecRender             *)

HeaderBuilt == result.kind = "ok" /\ ~call.opts.NoHeader

\* The header the options describe: each column's display text cut to its
\* width, and padded to it unless NoPadding is set or the column is the last
\* and PadLastColumn is not set, with the separator between columns
ClaimedHeader ==
    JoinWith([i \in 1..Len(Cols) |->
                 IF call.opts.NoPadding \/ (i = Len(Cols) /\ ~call.opts.PadLastColumn)
                 THEN Truncated(Cols[i].f.Display, Cols[i].width)
                 ELSE PaddedTo(Cols[i].f.Display, Cols[i].width)],
             call.opts.Separator)

----------------------------------------------------------------------------
(* The catalog of the package example: a name and an age                   *)

ScenarioRegistry ==
    Register(Register(NewRegistry,
                      String(Width(Field(<<"n", "a", "m", "e">>, <<"N", "a", "m", "e">>), 10), "Name")),
             IntGetter(Width(Field(<<"a", "g", "e">>, <<"A", "g", "e">>), 4), "Age"))

ScenarioSpecs == {<<"n", "a", "m", "e", ",", "a", "g", "e">>, <<"n", "a", "m", "e", ":", "2", "0", ",", "a", "g", "e">>, <<"A", "G", "E">>, <<"@", "b", "a", "s", "i", "c">>}

InitScenario ==
    /\ reg = ScenarioRegistry
    /\ call = NoCall
    /\ result = NoResult
    /\ line = <<>>
    /\ tmp = <<>>
    /\ sink = <<>>
    /\ ret = NoRet
    /\ callers = <<>>
    /\ bufs = <<>>

CompileScenarioStep ==
    /\ call.op = "none"
    /\ \E spec \in ScenarioSpecs :
           /\ call' = [op |-> "Compile", spec |-> spec, opts |-> DefaultOptions]
           /\ result' \in Compile(reg, spec, MaxDepth)
    /\ UNCHANGED <<callers, bufs, reg, line, tmp, sink, ret>>

NextScenario ==
    \/ CompileScenarioStep
    \/ WriteHeaderStep
    \/ WriteUnderlineStep
    \/ WriteRowStep
    \/ FormatRowStep

SpecScenario == InitScenario /\ [][NextScenario]_vars

\* C20: with the fields name (String, width 10, "Name") and age (Int, width
\* 4, "Age"), "name,age" compiled with the default options has the header
\* "Name      Age" and renders {Alice, 30} as "Alice     30".
C20_ScenarioA ==
    (call.spec = <<"n", "a", "m", "e", ",", "a", "g", "e">> /\ result.kind = "ok") =>
        /\ result.prog.header = <<"N", "a", "m", "e", SP, SP, SP, SP, SP, SP, "A", "g", "e">>
        /\ (RowRendered /\ ret.v.Name = <<"A", "l", "i", "c", "e">> /\ ret.v.Age = 30)
               => RowText = <<"A", "l", "i", "c", "e", SP, SP, SP, SP, SP, "3", "0">>

----------------------------------------------------------------------------
(* The separator: C21, checked under SpecRender                            *)

\* The bytes buildHeader gives column i by itself: the header of that one
\* field, padded as buildHeader pads a column in position i
HeaderCell(i) ==
    buildHeader(<<Cols[i].f>>, <<>>, call.opts.NoPadding,
                i < Len(Cols) \/ call.opts.PadLastColumn)

\* The bytes column i's write closure appends for the rendered record
RowCell(i) == colWrite(Cols[i], <<>>, ret.v, <<>>).line

\* C21: Compile builds its Program with a separator of two spaces and
\* CompileWithOptions with the separator of the options as given, empty
\* included; the header and every row are their columns' bytes with exactly
\* that separator between consecutive columns and nowhere else.
C21_Separator ==
    /\ \A res \in Compile(reg, call.spec, MaxDepth) :
           res.kind = "ok" => res.prog.separator = <<SP, SP>>
    /\ result.kind = "ok" => result.prog.separator = call.opts.Separator
    /\ HeaderBuilt =>
           result.prog.header =
               JoinWith([i \in 1..Len(Cols) |-> HeaderCell(i)], call.opts.Separator)
    /\ RowRendered =>
           RowText = JoinWith([i \in 1..Len(Cols) |-> RowCell(i)], call.opts.Separator)

\* A two-column row rendered with an empty separator: the second column's
\* bytes follow the first column's directly
C21_Witness ==
    /\ RowRendered
    /\ HeaderBuilt
    /\ call.opts.Separator = <<>>
    /\ Len(Cols) = 2
    /\ RowText = RowCell(1) \o RowCell(2)
    /\ result.prog.header = HeaderCell(1) \o HeaderCell(2)

----------------------------------------------------------------------------
(* Registering a name again: C22, checked under SpecFrame                  *)

\* The names a lookup is made with
LookupNames == {<<"a">>, <<"A">>, <<"b">>, <<"B">>}

\* The Program Compile builds from the single column f
ProgramOf(f) == compileParsed(Parsed(<<f>>), DefaultOptions)

\* C22: when a field is registered under a name the catalog already has,
\* every lookup and every Compile of that name, in any letter case, then
\* gives the field just registered.
C22_LastWriteWins ==
    [][\A f \in FrameDefs :
          (reg' = Register(reg, f) /\ f.Name \in DOMAIN reg.fields) =>
              \A n \in LookupNames :
                  ToLower(n) = ToLower(f.Name) =>
                      /\ get(reg', n) = [ok |-> TRUE, f |-> f]
                      /\ Compile(reg', n, MaxDepth) = {ProgramOf(f)}]_vars

----------------------------------------------------------------------------
(* Listing the catalog: C23, checked under Spec                            *)

\* names holds every element of keys once and nothing else
EachOnce(names, keys) ==
    /\ Len(names) = Cardinality(keys)
    /\ {names[i] : i \in 1..Len(names)} = keys

Alphabetical(names) ==
    \A i \in 1..(Len(names) - 1) : StringLess(names[i], names[i + 1])

\* C23: ListFields returns every registered field name exactly once, in
\* alphabetical order when sorted, and ListCollections every collection name
\* once in alphabetical order.
C23_Listings ==
    /\ EachOnce(ListFields(reg, FALSE), DOMAIN reg.fields)
    /\ EachOnce(ListFields(reg, TRUE), DOMAIN reg.fields)
    /\ Alphabetical(ListFields(reg, TRUE))
    /\ EachOnce(ListCollections(reg), DOMAIN reg.collections)
    /\ Alphabetical(ListCollections(reg))

----------------------------------------------------------------------------
(* Overriding a default spec: C24, checked under Spec                      *)

\* What the token "@c" expands to, against the catalog r
ExpansionOf(r, c) == parseSpec(r, <<"@">> \o c, MaxDepth)

\* What the spec s resolves to when it is expanded under the name c
ExpandedAs(r, c, s) == {Expanding(o, c) : o \in parseSpec(r, s, MaxDepth - 1)}

\* The catalog r2 differs from r1 in nothing but the default spec of c
OnlyDefaultOf(c, r1, r2) ==
    /\ r2.fields = r1.fields
    /\ r2.index = r1.index
    /\ r2.fieldOrder = r1.fieldOrder
    /\ r2.subRegistries = r1.subRegistries
    /\ r2.collections = r1.collections
    /\ DOMAIN r2.defaults = DOMAIN r1.defaults \cup {c}
    /\ \A k \in DOMAIN r1.defaults : k # c => r2.defaults[k] = r1.defaults[k]

----------------------------------------------------------------------------
(* A hierarchy of registries: a parent, the sub-registries added to it and *)
(* theirs.  AddRegistry keeps a pointer, so a field registered in a        *)
(* sub-registry after it was added is seen through the parent.  The        *)
(* hierarchy is a tree: no registry is added beneath itself.               *)

MaxSubs == 2

\* reg.Field(name, display, ..).Width(4).String(..) on a sub-registry: the
\* display tells the registries apart
SubField(name, display) == String(Width(Field(name, display), 4), "Name")

\* A sub-registry with "a" and "b", one with "B", and one with no field of
\* its own and a sub-registry with "b"
SubS == Register(Register(NewRegistry, SubField(<<"a">>, <<"S">>)), SubField(<<"b">>, <<"S">>))

SubT == Register(NewRegistry, SubField(<<"B">>, <<"T">>))

SubU == AddRegistry(NewRegistry, Register(NewRegistry, SubField(<<"b">>, <<"U">>)))

SubRegistries == {SubS, SubT, SubU}

\* The field registered in a sub-registry after it was added
LateField == SubField(<<"d">>, <<"L">>)

SubSpecs == {<<"a">>, <<"A">>, <<"b">>, <<"B">>, <<"d">>, <<"x">>, <<"b", ":", "2">>}

AddRegistryStep ==
    /\ Len(reg.subRegistries) < MaxSubs
    /\ \E sub \in SubRegistries : reg' = AddRegistry(reg, sub)
    /\ UNCHANGED <<callers, bufs, call, result, line, tmp, sink, ret>>

\* FieldBuilder.Register on a registry that the parent holds a pointer to
RegisterSubStep ==
    /\ \E i \in 1..Len(reg.subRegistries) :
           /\ LateField.Name \notin DOMAIN reg.subRegistries[i].fields
           /\ reg' = [reg EXCEPT !.subRegistries[i] = Register(@, LateField)]
    /\ UNCHANGED <<callers, bufs, call, result, line, tmp, sink, ret>>

CompileSubStep ==
    /\ call.op = "none"
    /\ \E spec \in SubSpecs :
           /\ call' = [op |-> "Compile", spec |-> spec, opts |-> DefaultOptions]
           /\ result' \in Compile(reg, spec, MaxDepth)
    /\ UNCHANGED <<callers, bufs, reg, line, tmp, sink, ret>>

NextSub ==
    \/ Populating /\ RegisterStep
    \/ Populating /\ AddRegistryStep
    \/ Populating /\ RegisterSubStep
    \/ CompileSubStep

SpecSub == Init /\ [][NextSub]_vars

\* The registry r itself has a field named name up to letter case
OwnMatch(r, name) == \E n \in DOMAIN r.fields : ToLower(n) = ToLower(name)

\* r or a registry beneath it has one
RECURSIVE Has(_, _)
Has(r, name) ==
    OwnMatch(r, name) \/ \E i \in 1..Len(r.subRegistries) : Has(r.subRegistries[i], name)

\* The fields a lookup of name in r may give: r's own field of that exact
\* name, else r's own fields of that name up to case, else what the first
\* sub-registry that has the name, in the order added, gives
RECURSIVE Candidates(_, _)
Candidates(r, name) ==
    IF name \in DOMAIN r.fields THEN {r.fields[name]}
    ELSE IF OwnMatch(r, name)
    THEN {r.fields[n] : n \in {m \in DOMAIN r.fields : ToLower(m) = ToLower(name)}}
    ELSE LET first == CHOOSE i \in 1..Len(r.subRegistries) :
                          /\ Has(r.subRegistries[i], name)
                          /\ \A j \in 1..(i - 1) : ~Has(r.subRegistries[j], name)
         IN Candidates(r.subRegistries[first], name)

\* C25: a field name resolves in the registry given to Compile if it has the
\* name (exactly, else up to case), and only otherwise in its
\* sub-registries, recursively and in the order they were added; a name no
\* registry of the hierarchy has is an unknown field.
C25_SubRegistryLookup ==
    (Compiled /\ IsFieldToken(call.spec)) =>
        IF Has(reg, NamePart(call.spec))
        THEN /\ result.kind = "ok"
             /\ Len(Cols) = 1
             /\ \E f \in Candidates(reg, NamePart(call.spec)) :
                    Cols[1].f = IF HasWidthPart(call.spec)
                                THEN [f EXCEPT !.Width = Atoi(WidthPart(call.spec)).val]
                                ELSE f
        ELSE FailsWith({"UnknownField"}, NamePart(call.spec))

\* "b" compiled against a parent that has "a" only: of the sub-registries,
\* the first added has "b" only in a sub-registry of its own and the second
\* has "b" itself, and the column is the field found under the first
C25_Witness ==
    /\ Compiled
    /\ call.spec = <<"b">>
    /\ DOMAIN reg.fields = {<<"a">>}
    /\ Len(reg.subRegistries) = 2
    /\ DOMAIN reg.subRegistries[1].fields \subseteq {<<"d">>}
    /\ <<"b">> \in DOMAIN reg.subRegistries[2].fields
    /\ result.kind = "ok"
    /\ Cols[1].f.Display = <<"U">>

----------------------------------------------------------------------------
(* The order of width validation and field lookup: C26, checked under Spec *)

\* The token has a width part that is empty, not an integer, or not positive
BadWidth(t) ==
    /\ HasWidthPart(t)
    /\ \/ ~Atoi(WidthPart(t)).ok
       \/ Atoi(WidthPart(t)).val <= 0

\* C26: the width of a token is validated before its field is looked up: a
\* token with a bad width part fails with an invalid-width error whether or
\* not its name is registered, and an unknown-field error is only ever
\* reported for a token whose width part, if it has one, is valid.
C26_WidthBeforeLookup ==
    Compiled =>
        \A t \in Culprits(call.spec, MaxDepth) :
            IsFieldToken(t) =>
                /\ BadWidth(t) => (result.kind = "err" /\ result.err.kind \in InvalidWidth)
                /\ (result.kind = "err" /\ result.err.kind = "UnknownField") => ~BadWidth(t)

----------------------------------------------------------------------------
(* Column widths: C27, checked under SpecRender                            *)

\* C27: every column of every Program that Compile returns has a width
\* greater than zero, whatever width the field was registered with.
C27_PositiveWidths ==
    (result.kind = "ok" /\ call.opts = DefaultOptions) =>
        \A i \in 1..Len(Cols) : Cols[i].width > 0

----------------------------------------------------------------------------
(* "@default" with no default spec registered: C28, checked under Spec     *)

AtDefault == <<"@">> \o DefaultName

\* C28: when no default spec is registered, "@default" expands to no fields
\* and no error: "@default,a" compiles as "a" does, to the single column a
\* when a is registered, and "@default" alone fails with the no-fields error.
C28_DefaultWithoutDefaults ==
    (Compiled /\ DOMAIN reg.defaults = {}) =>
        /\ parseSpec(reg, AtDefault, MaxDepth) = {Parsed(<<>>)}
        /\ call.spec = AtDefault => FailsWith({"NoFields"}, <<>>)
        /\ call.spec = Join(<<AtDefault, <<"a">>>>) =>
               /\ {result} = Compile(reg, <<"a">>, MaxDepth)
               /\ OwnMatch(reg, <<"a">>) =>
                      /\ result.kind = "ok"
                      /\ Len(Cols) = 1
                      /\ ToLower(Cols[1].f.Name) = <<"a">>

\* "@default,a" compiled to the one column a against a catalog with the
\* field a and no default spec
C28_Witness ==
    /\ Compiled
    /\ DOMAIN reg.defaults = {}
    /\ <<"a">> \in DOMAIN reg.fields
    /\ call.spec = Join(<<AtDefault, <<"a">>>>)
    /\ result.kind = "ok"
    /\ Len(Cols) = 1
    /\ Cols[1].f = reg.fields[<<"a">>]

----------------------------------------------------------------------------
(* Column alignment: C29, checked under SpecRender                         *)

\* The header as buildHeader has it when it is done with column i, that
\* column not padded
HeaderUpTo(i) ==
    buildHeader([k \in 1..i |-> Cols[k].f], call.opts.Separator, call.opts.NoPadding, FALSE)

\* Where column i starts in the header
HeaderStart(i) == Len(HeaderUpTo(i)) - Len(Truncated(Cols[i].f.Display, Cols[i].width))

\* The line buffer when the row's column loop is done with column i
RowUpTo(i) ==
    formatRow([result.prog EXCEPT !.columns = SubSeq(Cols, 1, i)], ret.v, <<>>).line

\* Where column i starts in the rendered row
RowStart(i) == Len(RowUpTo(i)) - Len(RowCell(i))

\* C29: with NoPadding false, column i starts in the header and in every
\* rendered row at the same offset: the widths of the columns before it plus
\* one separator for each, whatever the lengths of the values.
C29_Alignment ==
    ~call.opts.NoPadding =>
        /\ HeaderBuilt =>
               \A i \in 1..Len(Cols) :
                   /\ HeaderStart(i) = Offset(i)
                   /\ SubSeq(result.prog.header, 1, Len(HeaderUpTo(i))) = HeaderUpTo(i)
        /\ RowRendered =>
               \A i \in 1..Len(Cols) :
                   /\ RowStart(i) = Offset(i)
                   /\ SubSeq(RowText, 1, Len(RowUpTo(i))) = RowUpTo(i)

\* A row and a header of two columns with a separator: the first column's
\* display text and its value are both longer than its width, and the second
\* column starts at the same offset in both
C29_Witness ==
    /\ HeaderBuilt
    /\ RowRendered
    /\ ~call.opts.NoPadding
    /\ Len(Cols) = 2
    /\ call.opts.Separator = <<",">>
    /\ Len(Cols[1].f.Display) > Cols[1].width
    /\ Len(Val(1)) > Cols[1].width
    /\ HeaderStart(2) = Cols[1].width + 1
    /\ RowStart(2) = Cols[1].width + 1

----------------------------------------------------------------------------
(* Reused buffers: C30, checked under SpecRender                           *)

\* What the call ret records produces when it is given empty buffers
FreshOutput ==
    CASE ret.op = "WriteHeader" -> result.prog.header \o <<NL>>
      [] ret.op = "WriteUnderline" -> result.prog.underline \o <<NL>>
      [] ret.op = "WriteRow" -> formatRow(result.prog, ret.v, <<>>).line \o <<NL>>
      [] ret.op = "FormatRow" -> formatRow(result.prog, ret.v, <<>>).line
      [] OTHER -> <<>>

\* What it produced: the payload handed to the sink, or the string returned
Output == IF ret.op = "FormatRow" THEN ret.str ELSE sink[Len(sink)].data

\* C30: whatever earlier renders left in the line and tmp buffers, a
\* WriteHeader, WriteUnderline, WriteRow or FormatRow call produces the
\* bytes it produces with empty buffers, and leaves nothing else in line.
C30_BuffersReset ==
    (ret.op # "none" /\ ret.err # "panic") =>
        /\ Output = FreshOutput
        /\ line = FreshOutput

\* FormatRow of a record whose age is 7, with the buffers an earlier WriteRow
\* of another record, whose age is 30, was given: the row shows 7 and tmp
\* holds 7
C30_Witness ==
    /\ ret.op = "FormatRow"
    /\ ret.err # "panic"
    /\ call.spec = <<"n", ",", "g", ":", "4">>
    /\ call.opts.Separator = <<",">>
    /\ ret.v.Age = 7
    /\ Len(sink) = 1
    /\ \E v \in Records :
           /\ v.Age = 30
           /\ sink[1].data = formatRow(result.prog, v, <<>>).line \o <<NL>>
    /\ ret.str = <<"A", "l", SP, ",", "7", SP, SP, SP>>
    /\ tmp = <<"7">>

====
